---- MODULE Spec2Model ----
(***************************************************************************)
(* A model of smol-layout (src/src/lib.rs): the break-opportunity scanner  *)
(* `linebreaks`, the classifier `break_property` and the greedy wrapper    *)
(* `apply_newlines`.                                                       *)
(*                                                                         *)
(* Text is a sequence of codepoints.  Rust indices are 0-based; sequences  *)
(* here are 1-based, so the character at Rust index k is chars[k + 1].     *)
(* The tables of tables.rs are produced at build time and are read-only;   *)
(* a lookup in PAIR_TABLE is modelled as an arbitrary packed value.        *)
(* Widths are small numbers: current_width += w stays far below usize::MAX *)
(* and is modelled by the sum of integers.                                 *)
(***************************************************************************)
EXTENDS Integers, Sequences, FiniteSets, TLC

VARIABLES
    string,             \* apply_newlines: the text being wrapped
    max_width,          \* apply_newlines: the width budget
    font,               \* apply_newlines: index of the width map in Fonts
    breakers,           \* the iterator of linebreaks: [pos, state, zwj]
    emitted,            \* the items the iterator has yielded so far
    lastVal,            \* the PAIR_TABLE value of the latest scan step (-1: none)
    chars,              \* the working sequence of (char, break_op)
    output,             \* the output string
    current_width,
    break_point,        \* Option<usize>: << >> is None, <<p>> is Some(p)
    applied_line_break,
    cursor,             \* index of the for loop (0-based)
    pc,                 \* position in apply_newlines
    result,             \* what the call returned
    inserted,           \* history: positions of output holding a written newline
    base,               \* history: index in string of chars[1]
    splits,             \* history: number of splits so far
    subscans,           \* history: number of sub-scans started so far
    errAt,              \* history: index in string of the char an error was raised at
    first,              \* the result of the first call, once re-wrapping
    prior,              \* an earlier call on the same text: [result, output, ops]
    stale,              \* history: a split used a break point recorded before
                        \* a newline that precedes the overflowing character
    cp,                 \* break_property: the codepoint it is called with
    class               \* break_property: the class returned (-1: not yet)

vars == <<string, max_width, font, breakers, emitted, lastVal, chars, output,
          current_width, break_point, applied_line_break, cursor, pc, result,
          inserted, base, splits, subscans, errAt, first, prior, stale,
          cp, class>>

----------------------------------------------------------------------------
(* Bounds of the model *)

MaxLen == 4
MaxWidth == 2
MaxLenShort == 3

----------------------------------------------------------------------------
(* Characters and fonts *)

NUL == 0
NL == 10

\* The codepoints texts are drawn from: '\0', '\n', 'a' and U+200D.
Chars == {NUL, NL, 97, 8205}

\* tests::make_font: width 1 for every char from 0 to 255.
make_font == [c \in {c \in Chars : c <= 255} |-> 1]

\* Width maps a caller may pass: one with a width for 'a' and for U+200D,
\* and the one of the tests, which lacks U+200D.
Fonts == {(97 :> 1) @@ (8205 :> 2), make_font}

Texts(n) == UNION {[1..k -> Chars] : k \in 0..n}

----------------------------------------------------------------------------
(* shared.rs and tables.rs: break classes, bit masks and tables *)

LineFeed == 2
CombiningMark == 3
ZeroWidthJoiner == 10
Alphabetic == 34
Unknown == 41
eot == 42
sot == 43

ALLOWED_BREAK_BIT == 128
MANDATORY_BREAK_BIT == 64
UNIFORM_PAGE == 32768

\* The index of the compressed table: one entry per block of 256 codepoints.
PAGE_INDICES ==
    [p \in 0..33 |-> IF p = 0 THEN 0
                     ELSE IF p = 32 THEN 1
                     ELSE UNIFORM_PAGE + Alphabetic]

\* The pages of per-codepoint classes.
BREAK_PROP_DATA ==
    [page \in 0..1 |->
        [b \in 0..255 |->
            IF page = 0
            THEN (IF b = 10 THEN LineFeed
                  ELSE IF b < 32 THEN CombiningMark ELSE Alphabetic)
            ELSE (IF b = 13 THEN ZeroWidthJoiner ELSE Alphabetic)]]

\* The states a PAIR_TABLE entry can name, and the packed values it can hold.
TableStates == {sot, 0}
PairTableValues ==
    {s + a * ALLOWED_BREAK_BIT + m * MANDATORY_BREAK_BIT :
        s \in TableStates, a \in 0..1, m \in 0..1}

\* val & MASK /= 0 for a one-bit mask
BitSet(val, mask) == (val \div mask) % 2 = 1

----------------------------------------------------------------------------
(* break_property *)

\* break_property with the block taken as codepoint >> 9.
break_propertyShift9(codepoint) ==
    LET page == codepoint \div 512
    IN  IF page \notin DOMAIN PAGE_INDICES THEN Unknown
        ELSE LET page_idx == PAGE_INDICES[page]
             IN  IF BitSet(page_idx, UNIFORM_PAGE)
                 THEN (page_idx - UNIFORM_PAGE) % 256
                 ELSE BREAK_PROP_DATA[page_idx][codepoint % 256]

break_property(codepoint) ==
    LET page == codepoint \div 256
    IN  IF page \notin DOMAIN PAGE_INDICES THEN Unknown
        ELSE LET page_idx == PAGE_INDICES[page]
             IN  IF BitSet(page_idx, UNIFORM_PAGE)
                 THEN (page_idx - UNIFORM_PAGE) % 256
                 ELSE BREAK_PROP_DATA[page_idx][codepoint % 256]

----------------------------------------------------------------------------
(* linebreaks *)

\* str::len and char_indices: UTF-8 byte lengths and offsets
Utf8Len(c) == IF c < 128 THEN 1 ELSE IF c < 2048 THEN 2 ELSE IF c < 65536 THEN 3 ELSE 4

RECURSIVE ByteLen(_)
ByteLen(s) == IF s = << >> THEN 0
              ELSE ByteLen(SubSeq(s, 1, Len(s) - 1)) + Utf8Len(s[Len(s)])

\* The k-th element (1-based) of char_indices().map(..).chain(once((s.len(), eot)))
ClassAt(s, k) ==
    IF k <= Len(s)
    THEN [i |-> ByteLen(SubSeq(s, 1, k - 1)), cls |-> break_property(s[k])]
    ELSE [i |-> ByteLen(s), cls |-> eot]

\* Lines 119-121: the chain holds Len(s) + 1 elements, and it.pos of them
\* have been taken.  The first definition is the iterator without its chain.
IteratorHasNextNoEot(s, it) == it.pos < Len(s)
IteratorHasNext(s, it) == it.pos < Len(s) + 1

\* The closure of scan and the map after it, for one element and the value
\* val the table holds for (state, cls).
is_mandatory(val) == BitSet(val, MANDATORY_BREAK_BIT)

is_breakAfterZwj(zwj, val) == BitSet(val, ALLOWED_BREAK_BIT)
is_break(zwj, val) == BitSet(val, ALLOWED_BREAK_BIT) /\ (~zwj \/ is_mandatory(val))

NextTableState(val) ==
    val - (IF BitSet(val, ALLOWED_BREAK_BIT) THEN ALLOWED_BREAK_BIT ELSE 0)
        - (IF BitSet(val, MANDATORY_BREAK_BIT) THEN MANDATORY_BREAK_BIT ELSE 0)

Verdict(zwj, val) ==
    IF is_break(zwj, val)
    THEN (IF is_mandatory(val) THEN "Mandatory" ELSE "Allowed")
    ELSE "None"

NewBreakers == [pos |-> 0, state |-> sot, zwj |-> FALSE]

\* Iterator::next on the iterator linebreaks returns: the item yielded, and
\* the iterator afterwards.
ScanItem(s, it, val) ==
    LET e == ClassAt(s, it.pos + 1)
    IN  [i |-> e.i, op |-> Verdict(it.zwj, val)]

ScanAfter(s, it, val) ==
    LET e == ClassAt(s, it.pos + 1)
    IN  [pos |-> it.pos + 1,
         state |-> NextTableState(val),
         zwj |-> (e.cls = ZeroWidthJoiner)]

----------------------------------------------------------------------------
(* apply_newlines *)

Running == [tag |-> "Running", c |-> -1]
Ok == [tag |-> "Ok", c |-> -1]
MissingCharacterWidth(c) == [tag |-> "MissingCharacterWidth", c |-> c]
NoLegalLinebreakOpportunity == [tag |-> "NoLegalLinebreakOpportunity", c |-> -1]

\* chars.iter().map(|(c, _)| c).collect()
CharsOf(cs) == [k \in 1..Len(cs) |-> cs[k].c]

\* chars.split_at(break_point)
SplitPrefix(cs, p) == SubSeq(cs, 1, p)
SplitPostfixSkip(cs, p) == SubSeq(cs, p + 2, Len(cs))
SplitPostfix(cs, p) == SubSeq(cs, p + 1, Len(cs))

\* writeln!(output, "{}", prefix)
Writeln(out, prefix) == out \o prefix \o <<NL>>

\* font.get(c): << >> is None, <<w>> is Some(w)
FontGetOrZero(f, c) == IF c \in DOMAIN f THEN <<f[c]>> ELSE <<0>>
FontGet(f, c) == IF c \in DOMAIN f THEN <<f[c]>> ELSE << >>

\* current_width > max_width
OverWidthLoose(w, max) == w > max + 1
OverWidthStrict(w, max) == w >= max
OverWidth(w, max) == w > max

\* if break_op.is_some() && cursor != 0 { break_point = Some(cursor) }
RecordBreakPointAlways(bp, op, cur) == IF cur # 0 THEN <<cur>> ELSE bp
RecordBreakPointAtZero(bp, op, cur) == IF op # "None" THEN <<cur>> ELSE bp
\* RecordBreakPoint that takes Allowed annotations only.
RecordBreakPointAllowedOnly(bp, op, cur) ==
    IF op = "Allowed" /\ cur # 0 THEN <<cur>> ELSE bp
\* RecordBreakPoint that keeps the first break point of a sub-scan.
RecordBreakPointFirst(bp, op, cur) ==
    IF op # "None" /\ cur # 0 /\ bp = << >> THEN <<cur>> ELSE bp

RecordBreakPoint(bp, op, cur) == IF op # "None" /\ cur # 0 THEN <<cur>> ELSE bp

\* The state a call starts in.
Call(s, w, f, fst) ==
    /\ string = s
    /\ max_width = w
    /\ font = f
    /\ breakers = NewBreakers
    /\ emitted = << >>
    /\ lastVal = -1
    /\ chars = << >>
    /\ output = << >>
    /\ current_width = 0
    /\ break_point = << >>
    /\ applied_line_break = FALSE
    /\ cursor = 0
    /\ pc = "collect"
    /\ result = Running
    /\ inserted = {}
    /\ base = 0
    /\ splits = 0
    /\ subscans = 0
    /\ errAt = -1
    /\ first = fst
    /\ prior = << >>
    /\ stale = FALSE

InitWith(n) ==
    /\ \E s \in Texts(n), w \in 1..MaxWidth, f \in Fonts : Call(s, w, f, << >>)
    /\ cp = 0
    /\ class = -1

Init == InitWith(MaxLen)

\* Shorter texts, for the specifications that run two calls or keep every item.
InitShort == InitWith(MaxLenShort)

\* Iterator::next on breakers, where the table holds val.
BreakersNext(val) ==
    /\ emitted' = Append(emitted, ScanItem(string, breakers, val))
    /\ breakers' = ScanAfter(string, breakers, val)
    /\ lastVal' = val

\* Lines 19-22, one character: breakers.next() is paired with the character.
Collect ==
    /\ pc = "collect"
    /\ Len(chars) < Len(string)
    /\ IteratorHasNext(string, breakers)
    /\ \E val \in PairTableValues :
          /\ BreakersNext(val)
          /\ chars' = Append(chars, [c |-> string[Len(chars) + 1],
                                     op |-> ScanItem(string, breakers, val).op])
    /\ UNCHANGED <<string, max_width, font, output, current_width,
                   break_point, applied_line_break, cursor, pc, result,
                   inserted, base, splits, subscans, errAt, first, prior,
                   stale, cp, class>>

\* Lines 19-22: char_indices is exhausted and collect returns.  breakers is
\* never read again.
CollectDone ==
    /\ pc = "collect"
    /\ Len(chars) = Len(string)
    /\ pc' = "loop"
    /\ breakers' = NewBreakers
    /\ lastVal' = -1
    /\ UNCHANGED <<string, max_width, font, emitted, chars, output,
                   current_width, break_point, applied_line_break, cursor,
                   result, inserted, base, splits, subscans, errAt, first,
                   prior, stale, cp, class>>

\* Lines 26-31: the top of the loop, a sub-scan starts.
LoopStart ==
    /\ pc = "loop"
    /\ current_width' = 0
    /\ break_point' = << >>
    /\ applied_line_break' = FALSE
    /\ cursor' = 0
    /\ subscans' = subscans + 1
    /\ pc' = "for"
    /\ UNCHANGED <<string, max_width, font, breakers, emitted, lastVal,
                   chars, output, result, inserted, base, splits, errAt,
                   first, prior, stale, cp, class>>

InFor == pc = "for" /\ cursor < Len(chars)
Cur == chars[cursor + 1]
Measured == Cur.c # NUL /\ Cur.c # NL

\* Lines 33-35 with continue in place of break.
ForNullContinue ==
    /\ InFor
    /\ Cur.c = NUL
    /\ cursor' = cursor + 1
    /\ UNCHANGED <<string, max_width, font, breakers, emitted, lastVal,
                   chars, output, current_width, break_point,
                   applied_line_break, pc, result, inserted, base, splits,
                   subscans, errAt, first, prior, stale, cp, class>>

\* Lines 33-35: a null character ends the for loop.
ForNull ==
    /\ InFor
    /\ Cur.c = NUL
    /\ pc' = "check"
    /\ UNCHANGED <<string, max_width, font, breakers, emitted, lastVal,
                   chars, output, current_width, break_point,
                   applied_line_break, cursor, result, inserted, base,
                   splits, subscans, errAt, first, prior, stale, cp, class>>

\* Lines 38-41 without the reset.
ForNewlineNoReset ==
    /\ InFor
    /\ Cur.c # NUL
    /\ Cur.c = NL
    /\ cursor' = cursor + 1
    /\ UNCHANGED <<string, max_width, font, breakers, emitted, lastVal,
                   chars, output, current_width, break_point,
                   applied_line_break, pc, result, inserted, base, splits,
                   subscans, errAt, first, prior, stale, cp, class>>

\* Lines 38-41: a newline resets the width.
ForNewline ==
    /\ InFor
    /\ Cur.c # NUL
    /\ Cur.c = NL
    /\ current_width' = 0
    /\ cursor' = cursor + 1
    /\ UNCHANGED <<string, max_width, font, breakers, emitted, lastVal,
                   chars, output, break_point, applied_line_break, pc,
                   result, inserted, base, splits, subscans, errAt, first,
                   prior, stale, cp, class>>

\* Line 44: the font has no width for the character.
ForMissing ==
    /\ InFor
    /\ Measured
    /\ FontGet(font, Cur.c) = << >>
    /\ result' = MissingCharacterWidth(Cur.c)
    /\ errAt' = base + cursor
    /\ pc' = "done"
    /\ UNCHANGED <<string, max_width, font, breakers, emitted, lastVal,
                   chars, output, current_width, break_point,
                   applied_line_break, cursor, inserted, base, splits,
                   subscans, first, prior, stale, cp, class>>

\* History only (lines 38-41, 49-53): a '\n' stands in the working sequence
\* strictly between the break point p and the overflowing index k.
NewlineBetween(cs, p, k) ==
    \E q \in (p + 1)..(k - 1) : cs[q + 1].c = NL

\* Lines 44-61: over the width with a break point: the split.
ForSplit ==
    /\ InFor
    /\ Measured
    /\ FontGet(font, Cur.c) # << >>
    /\ OverWidth(current_width + FontGet(font, Cur.c)[1], max_width)
    /\ break_point # << >>
    /\ current_width' = current_width + FontGet(font, Cur.c)[1]
    /\ output' = Writeln(output, CharsOf(SplitPrefix(chars, break_point[1])))
    /\ inserted' = inserted \cup {Len(output')}
    /\ chars' = SplitPostfix(chars, break_point[1])
    /\ base' = base + break_point[1]
    /\ applied_line_break' = TRUE
    /\ splits' = splits + 1
    /\ stale' = (stale \/ NewlineBetween(chars, break_point[1], cursor))
    /\ pc' = "check"
    /\ UNCHANGED <<string, max_width, font, breakers, emitted, lastVal,
                   break_point, cursor, result, subscans, errAt, first,
                   prior, cp, class>>

\* Lines 44-64: over the width without a break point.
ForNoBreak ==
    /\ InFor
    /\ Measured
    /\ FontGet(font, Cur.c) # << >>
    /\ OverWidth(current_width + FontGet(font, Cur.c)[1], max_width)
    /\ break_point = << >>
    /\ current_width' = current_width + FontGet(font, Cur.c)[1]
    /\ result' = NoLegalLinebreakOpportunity
    /\ errAt' = base + cursor
    /\ pc' = "done"
    /\ UNCHANGED <<string, max_width, font, breakers, emitted, lastVal,
                   chars, output, break_point, applied_line_break, cursor,
                   inserted, base, splits, subscans, first, prior, stale, cp,
                   class>>

\* Lines 44-71: within the width; a break point may be recorded.
ForFits ==
    /\ InFor
    /\ Measured
    /\ FontGet(font, Cur.c) # << >>
    /\ ~OverWidth(current_width + FontGet(font, Cur.c)[1], max_width)
    /\ current_width' = current_width + FontGet(font, Cur.c)[1]
    /\ break_point' = RecordBreakPoint(break_point, Cur.op, cursor)
    /\ cursor' = cursor + 1
    /\ UNCHANGED <<string, max_width, font, breakers, emitted, lastVal,
                   chars, output, applied_line_break, pc, result, inserted,
                   base, splits, subscans, errAt, first, prior, stale, cp,
                   class>>

\* Line 31: the for loop has visited every character.
ForEnd ==
    /\ pc = "for"
    /\ cursor = Len(chars)
    /\ pc' = "check"
    /\ UNCHANGED <<string, max_width, font, breakers, emitted, lastVal,
                   chars, output, current_width, break_point,
                   applied_line_break, cursor, result, inserted, base,
                   splits, subscans, errAt, first, prior, stale, cp, class>>

\* Lines 76-79: a line break was applied, the loop runs again.
LoopAgain ==
    /\ pc = "check"
    /\ applied_line_break
    /\ pc' = "loop"
    /\ UNCHANGED <<string, max_width, font, breakers, emitted, lastVal,
                   chars, output, current_width, break_point,
                   applied_line_break, cursor, result, inserted, base,
                   splits, subscans, errAt, first, prior, stale, cp, class>>

\* Lines 76-84: no line break was applied: the rest is pushed and Ok returned.
Finish ==
    /\ pc = "check"
    /\ ~applied_line_break
    /\ output' = output \o CharsOf(chars)
    /\ chars' = << >>
    /\ result' = Ok
    /\ pc' = "done"
    /\ UNCHANGED <<string, max_width, font, breakers, emitted, lastVal,
                   current_width, break_point, applied_line_break, cursor,
                   inserted, base, splits, subscans, errAt, first, prior,
                   stale, cp, class>>

Next ==
    \/ Collect
    \/ CollectDone
    \/ LoopStart
    \/ ForNull
    \/ ForNewline
    \/ ForMissing
    \/ ForSplit
    \/ ForNoBreak
    \/ ForFits
    \/ ForEnd
    \/ LoopAgain
    \/ Finish

Spec == Init /\ [][Next]_vars

\* The specification of apply_newlines with termination: every step of the
\* function is taken once it can be (the call runs to its return).
SpecFair == Spec /\ WF_vars(Next)

----------------------------------------------------------------------------
(* linebreaks on its own: a consumer that drains the iterator *)

\* Lines 119-140: the next item of the iterator, the end-of-text item included.
LinebreaksNext ==
    /\ IteratorHasNext(string, breakers)
    /\ \E val \in PairTableValues : BreakersNext(val)
    /\ UNCHANGED <<string, max_width, font, chars, output, current_width,
                   break_point, applied_line_break, cursor, pc, result,
                   inserted, base, splits, subscans, errAt, first, prior,
                   stale, cp, class>>

NextLB == LinebreaksNext

SpecLB == InitShort /\ [][NextLB]_vars

----------------------------------------------------------------------------
(* apply_newlines called again on its own result *)

\* A caller passes the Ok result of a call to a second call, with the same
\* max_width and font.
Rewrap ==
    /\ pc = "done"
    /\ result = Ok
    /\ first = << >>
    /\ first' = <<output>>
    /\ string' = output
    /\ breakers' = NewBreakers
    /\ emitted' = << >>
    /\ lastVal' = -1
    /\ chars' = << >>
    /\ output' = << >>
    /\ current_width' = 0
    /\ break_point' = << >>
    /\ applied_line_break' = FALSE
    /\ cursor' = 0
    /\ pc' = "collect"
    /\ result' = Running
    /\ inserted' = {}
    /\ base' = 0
    /\ splits' = 0
    /\ subscans' = 0
    /\ errAt' = -1
    /\ stale' = FALSE
    /\ UNCHANGED <<max_width, font, prior, cp, class>>

NextRewrap == Next \/ Rewrap

SpecRewrap == InitShort /\ [][NextRewrap]_vars

----------------------------------------------------------------------------
(* apply_newlines called twice on one text, under two pair tables *)

\* Whether each annotation is present, the kind left out.
Presence(items) == [k \in 1..Len(items) |-> items[k].op # "None"]

\* The text, max_width and font of a finished call are passed to a second
\* call; the first call's result and annotations are remembered.
Recall ==
    /\ pc = "done"
    /\ prior = << >>
    /\ prior' = <<[result |-> result, output |-> output, ops |-> emitted]>>
    /\ breakers' = NewBreakers
    /\ emitted' = << >>
    /\ lastVal' = -1
    /\ chars' = << >>
    /\ output' = << >>
    /\ current_width' = 0
    /\ break_point' = << >>
    /\ applied_line_break' = FALSE
    /\ cursor' = 0
    /\ pc' = "collect"
    /\ result' = Running
    /\ inserted' = {}
    /\ base' = 0
    /\ splits' = 0
    /\ subscans' = 0
    /\ errAt' = -1
    /\ stale' = FALSE
    /\ UNCHANGED <<string, max_width, font, first, cp, class>>

\* The second call's table gives each codepoint an annotation exactly where
\* the first call's table gave it one; the kind is free.
SamePresence ==
    \/ prior = << >>
    \/ \A k \in 1..Len(emitted) :
          Presence(emitted)[k] = Presence(prior[1].ops)[k]

NextKinds == (Next /\ SamePresence') \/ Recall

SpecKinds == InitShort /\ [][NextKinds]_vars

----------------------------------------------------------------------------
(* break_property on its own *)

\* Blocks of 256 codepoints: two with a page of their own, uniform ones, the
\* last of the index, and blocks beyond it up to char::MAX and u32 values
\* past it.
Pages == {0, 1, 31, 32, 33, 34, 255, 4351, 65536}
Bytes == {0, 10, 13, 31, 32, 97, 128, 255}
Codepoints == {256 * p + b : p \in Pages, b \in Bytes}

InitBP ==
    /\ Call(<< >>, 1, make_font, << >>)
    /\ cp \in Codepoints
    /\ class = -1

\* Lines 95-104: one call of break_property.
Classify ==
    /\ class' = break_property(cp)
    /\ UNCHANGED <<string, max_width, font, breakers, emitted, lastVal,
                   chars, output, current_width, break_point,
                   applied_line_break, cursor, pc, result, inserted, base,
                   splits, subscans, errAt, first, prior, stale, cp>>

\* A caller asks about another codepoint.
Ask ==
    /\ class # -1
    /\ cp' \in Codepoints
    /\ class' = -1
    /\ UNCHANGED <<string, max_width, font, breakers, emitted, lastVal,
                   chars, output, current_width, break_point,
                   applied_line_break, cursor, pc, result, inserted, base,
                   splits, subscans, errAt, first, prior, stale>>

NextBP == Classify \/ Ask

SpecBP == InitBP /\ [][NextBP]_vars

----------------------------------------------------------------------------
(* Notions the properties are stated with *)

Done == pc = "done"
ReturnedOk == pc = "done" /\ result = Ok

\* The summed width of s[i..j], a character without a width counting 0.
RECURSIVE WidthSum(_, _, _, _)
WidthSum(f, s, i, j) ==
    IF i > j THEN 0
    ELSE (IF s[j] \in DOMAIN f THEN f[s[j]] ELSE 0) + WidthSum(f, s, i, j - 1)

\* Every line of s, the segments between newlines, is within the width w.
LinesWithin(f, s, w) ==
    \A i \in 1..Len(s) : \A j \in i..Len(s) :
        (\A k \in i..j : s[k] # NL) => WidthSum(f, s, i, j) <= w

\* s up to, and without, its first null character.
BeforeNul(s) ==
    IF \E k \in 1..Len(s) : s[k] = NUL
    THEN SubSeq(s, 1, (CHOOSE k \in 1..Len(s) :
                          s[k] = NUL /\ \A m \in 1..(k - 1) : s[m] # NUL) - 1)
    ELSE s

HasNul(s) == \E k \in 1..Len(s) : s[k] = NUL

\* out without the characters at the positions in ins.
RECURSIVE Without(_, _)
Without(out, ins) ==
    IF out = << >> THEN << >>
    ELSE Without(SubSeq(out, 1, Len(out) - 1), ins)
            \o (IF Len(out) \in ins THEN << >> ELSE <<out[Len(out)]>>)

\* The font has a width for every character of s other than newlines.
Covers(f, s) == \A k \in 1..Len(s) : s[k] # NL => s[k] \in DOMAIN f

----------------------------------------------------------------------------
(* Width of the lines of the result *)

\* C1, as stated: whenever apply_newlines returns Ok(out), every line of out
\* has a summed width of at most max_width.
C1_EveryLineWithin == ReturnedOk => LinesWithin(font, output, max_width)

\* C1, amended: whenever apply_newlines returns Ok(out), every character of
\* out before its first null character, newlines apart, has a width in the
\* font, and every line of that part of out has a summed width of at most
\* max_width.  (All of out, when the text has no null character.)
C1_LinesBeforeNulWithin ==
    ReturnedOk =>
        /\ Covers(font, BeforeNul(output))
        /\ LinesWithin(font, BeforeNul(output), max_width)

\* A call that split and returned Ok, whose text has a null character with
\* an over-wide line after it.
C1_Witness ==
    /\ ReturnedOk
    /\ splits >= 1
    /\ HasNul(output)
    /\ BeforeNul(output) # << >>
    /\ ~LinesWithin(font, output, max_width)

\* C2: the output so far without the newlines written by the splits, followed
\* by the working sequence, is the input; the positions written by the splits
\* hold newlines.  At Ok the working sequence has been pushed, so the output
\* without the written newlines is the input.
C2_OnlyNewlinesInserted ==
    pc # "collect" =>
        /\ Without(output, inserted) \o CharsOf(chars) = string
        /\ \A k \in inserted : k \in 1..Len(output) /\ output[k] = NL
        /\ Cardinality(inserted) = splits

\* An Ok result with two newlines inserted.
C2_Witness == ReturnedOk /\ splits = 2 /\ Len(output) = Len(string) + 2

\* C3: when the font has a width for every character of the text other than
\* newlines and no line of the text is over max_width, the call returns Ok
\* of the text and inserts nothing.
C3_FittingTextUnchanged ==
    (Done /\ Covers(font, string) /\ LinesWithin(font, string, max_width)) =>
        /\ result = Ok
        /\ output = string
        /\ inserted = {}

\* A fitting text with a line exactly max_width wide and a break annotation
\* after index 0, returned unchanged.
C3_Witness ==
    /\ ReturnedOk
    /\ Covers(font, string)
    /\ LinesWithin(font, string, max_width)
    /\ Len(string) >= 3
    /\ \E k \in 1..Len(string) : string[k] = 97
    /\ ~LinesWithin(font, string, max_width - 1)
    /\ \E k \in 2..Len(emitted) : emitted[k].op # "None"

----------------------------------------------------------------------------
(* Errors *)

\* The Rust indices p > 0 whose character carries a break annotation.
AnnotatedIndices == {p \in 1..(Len(string) - 1) : emitted[p + 1].op # "None"}

\* Splitting the text before the indices of S leaves every line within w.
SplitWithin(f, s, w, S) ==
    \A i \in 1..Len(s) : \A j \in i..Len(s) :
        ((\A k \in i..j : s[k] # NL) /\ (\A p \in S : ~(i <= p /\ p < j)))
            => WidthSum(f, s, i, j) <= w

Feasible == \E S \in SUBSET AnnotatedIndices : SplitWithin(font, string, max_width, S)

\* C4: for a text without a null character and a font covering it, when some
\* set of annotated indices p > 0 splits the text into lines within
\* max_width, the call does not return NoLegalLinebreakOpportunity.
C4_NoLegalOnlyIfInfeasible ==
    (Done /\ ~HasNul(string) /\ Covers(font, string) /\ Feasible)
        => result # NoLegalLinebreakOpportunity

\* The text has, at Rust index i, a measured character wider than max_width,
\* with no null character and no character without a width before it.
WideAt(i) ==
    /\ string[i + 1] \notin {NUL, NL}
    /\ string[i + 1] \in DOMAIN font
    /\ font[string[i + 1]] > max_width
    /\ \A k \in 1..i : string[k] # NUL
    /\ Covers(font, SubSeq(string, 1, i))

C6_UnbreakableOverWidthFails ==
    (/\ Done
     /\ AnnotatedIndices = {}
     /\ Covers(font, string)
     /\ ~HasNul(string)
     /\ ~LinesWithin(font, string, max_width))
        => result = NoLegalLinebreakOpportunity

\* Such a call, where no single character is over max_width and the line over
\* it is not the first line.
C6_Witness ==
    /\ Done
    /\ AnnotatedIndices = {}
    /\ Covers(font, string)
    /\ ~HasNul(string)
    /\ ~LinesWithin(font, string, max_width)
    /\ \A k \in 1..Len(string) : WidthSum(font, string, k, k) <= max_width
    /\ errAt >= 2
    /\ result = NoLegalLinebreakOpportunity

\* The Rust indices of the characters that the font has no width for and
\* that no null character precedes.
MissingIndices ==
    {i \in 0..(Len(string) - 1) :
        /\ string[i + 1] \notin {NUL, NL}
        /\ string[i + 1] \notin DOMAIN font
        /\ \A k \in 1..i : string[k] # NUL}

FirstMissing == CHOOSE i \in MissingIndices : \A j \in MissingIndices : i <= j

\* C7: when the text has, before any null character, a character other than
\* a newline without a width, the call does not return Ok: it returns
\* MissingCharacterWidth of the first such character, or
\* NoLegalLinebreakOpportunity raised at a character before it.  And
\* MissingCharacterWidth(c) is only returned for a character c of the text
\* that is neither null nor a newline and has no width.
C7_MissingWidthAborts ==
    Done =>
        /\ MissingIndices # {} =>
              \/ /\ result = MissingCharacterWidth(string[FirstMissing + 1])
                 /\ errAt = FirstMissing
              \/ /\ result = NoLegalLinebreakOpportunity
                 /\ errAt < FirstMissing
        /\ result.tag = "MissingCharacterWidth" =>
              /\ \E k \in 1..Len(string) : string[k] = result.c
              /\ result.c \notin {NUL, NL}
              /\ result.c \notin DOMAIN font

\* MissingCharacterWidth returned after a split, by the sub-scan of the rest.
C7_Witness ==
    /\ Done
    /\ result.tag = "MissingCharacterWidth"
    /\ splits >= 1
    /\ errAt = FirstMissing

----------------------------------------------------------------------------
(* Stability, termination *)

\* C8: when a call returned Ok(out), the call on out with the same max_width
\* and font returns Ok(out) and inserts no newline, whatever the break
\* annotations of out are.
C8_RewrapStable ==
    (Done /\ first # << >>) =>
        /\ result = Ok
        /\ output = first[1]
        /\ inserted = {}

\* A second call returned, on a first result that holds an inserted newline
\* and a break annotation after index 0.
C8_Witness ==
    /\ Done
    /\ first # << >>
    /\ Len(first[1]) > MaxLenShort
    /\ \E k \in 2..Len(emitted) : emitted[k].op # "None"

\* C9: every call returns; a split makes the working sequence shorter, the
\* number of splits never exceeds the number n of characters of the text and
\* the number of sub-scans never exceeds n + 1.
C9_Terminates ==
    /\ <>Done
    /\ [](splits <= Len(string) /\ subscans <= Len(string) + 1
          /\ subscans <= splits + 1)
    /\ [][splits' # splits => Len(chars') < Len(chars)]_vars

\* A call that ran three sub-scans and returned.
C9_Witness == Done /\ splits = 2 /\ subscans = 3

----------------------------------------------------------------------------
(* The scanner *)

\* C10: the item emitted right after a zero-width joiner is never Allowed; it
\* is Mandatory when the table value has the allowed and the mandatory bit,
\* and None otherwise.  At every other position the verdict is present
\* exactly when the table value has the allowed bit.
C10_ZwjSuppression ==
    emitted # << >> =>
        LET k == Len(emitted)
            op == emitted[k].op
            afterZwj == k > 1 /\ break_property(string[k - 1]) = ZeroWidthJoiner
            allowed == (lastVal \div ALLOWED_BREAK_BIT) % 2 = 1
            mandatory == (lastVal \div MANDATORY_BREAK_BIT) % 2 = 1
        IN  IF afterZwj
            THEN /\ op # "Allowed"
                 /\ (op = "Mandatory") = (allowed /\ mandatory)
                 /\ (op = "None") = ~(allowed /\ mandatory)
            ELSE (op # "None") = allowed

\* The item after a zero-width joiner, where the table allows a break that is
\* not mandatory, and the item after that one, where the table allows it too.
C10_WitnessSuppressed ==
    /\ Len(emitted) >= 2
    /\ string[Len(emitted) - 1] = 8205
    /\ (lastVal \div ALLOWED_BREAK_BIT) % 2 = 1
    /\ (lastVal \div MANDATORY_BREAK_BIT) % 2 = 0
    /\ emitted[Len(emitted)].op = "None"

C10_WitnessOneStep ==
    /\ Len(emitted) >= 3
    /\ string[Len(emitted) - 2] = 8205
    /\ string[Len(emitted) - 1] # 8205
    /\ emitted[Len(emitted) - 1].op = "None"
    /\ emitted[Len(emitted)].op = "Allowed"

----------------------------------------------------------------------------
(* C11 *)

\* The number of input characters that stand before output position k, an
\* inserted newline: the 0-based input index of the character after it.
InputIndex(k) == k - Cardinality({j \in inserted : j <= k})

\* Whether the codepoint at 0-based input index i carries an annotation.
Annotated(i) == i \in 0..(Len(emitted) - 1) /\ emitted[i + 1].op # "None"

\* C11 as stated: every newline inserted by apply_newlines stands immediately
\* after an input character whose break annotation is present.
C11_NewlineAfterAnnotated ==
    \A k \in inserted : Annotated(InputIndex(k) - 1)

\* C11, amended: every newline inserted by apply_newlines stands immediately
\* before an input character whose break annotation is present (Allowed or
\* Mandatory); the annotation of a codepoint describes a break before it.
C11_NewlineBeforeAnnotated ==
    \A k \in inserted : InputIndex(k) >= 1 /\ Annotated(InputIndex(k))

\* A call returned Ok with a newline inserted after a character that carries
\* no annotation.
C11_Witness ==
    /\ ReturnedOk
    /\ \E k \in inserted : ~Annotated(InputIndex(k) - 1)

----------------------------------------------------------------------------
(* C12 *)

\* The class the three resolution paths give the codepoint asked about.
C12_Resolution ==
    LET hi == cp \div 256
        lo == cp % 256
    IN  class # -1 =>
          IF hi \notin DOMAIN PAGE_INDICES
          THEN class = Unknown
          ELSE IF PAGE_INDICES[hi] >= UNIFORM_PAGE
               THEN class = PAGE_INDICES[hi] - UNIFORM_PAGE
               ELSE class = BREAK_PROP_DATA[PAGE_INDICES[hi]][lo]

\* C12: classification is total and takes exactly one resolution path:
\* Unknown when codepoint >> 8 is outside the page index; otherwise the class
\* in the remaining bits of a uniform index entry; otherwise the entry at
\* codepoint & 0xFF of the page pointed to.  Asking again about the same
\* codepoint gives the same class.
C12_ClassificationTotal ==
    /\ [](C12_Resolution)
    /\ [][(class # -1 /\ class' # -1 /\ cp' = cp) => class' = class]_vars

\* A codepoint of a page of its own has been classified from that page.
C12_Witness == cp = 8205 /\ class = ZeroWidthJoiner

\* A codepoint of a uniform block has been classified from the index entry.
C12_WitnessUniform ==
    /\ cp \div 256 = 33
    /\ PAGE_INDICES[33] >= UNIFORM_PAGE
    /\ class = Alphabetic

\* A codepoint beyond the page index has been classified.
C12_WitnessUnknown == cp \div 256 = 65536 /\ class = Unknown

----------------------------------------------------------------------------
(* C13 *)

\* The indices p of the working sequence with 0 < p < k whose character is
\* not '\n' and carries an annotation.
Candidates(cs, k) ==
    {p \in 1..(k - 1) : cs[p + 1].c # NL /\ cs[p + 1].op # "None"}

\* The step is the split of lines 49-61.
IsSplit == pc = "for" /\ splits' = splits + 1

\* C13: when adding the width of the character at index k first exceeds
\* max_width and a break position was recorded, the split index is the
\* greatest p with 0 < p < k whose character is not '\n' and carries an
\* annotation; chars [0, p) and one newline are appended to the output, the
\* working sequence becomes the chars from p on, and the next sub-scan starts
\* with width 0 and no recorded break position.
C13_GreedySplit ==
    [][/\ IsSplit =>
            LET k == cursor
                p == break_point[1]
            IN  /\ Candidates(chars, k) # {}
                /\ p \in Candidates(chars, k)
                /\ \A q \in Candidates(chars, k) : q <= p
                /\ output' = output \o CharsOf(SubSeq(chars, 1, p)) \o <<NL>>
                /\ chars' = SubSeq(chars, p + 1, Len(chars))
                /\ applied_line_break'
       /\ (pc = "loop" /\ pc' = "for") =>
            /\ current_width' = 0
            /\ break_point' = << >>
            /\ cursor' = 0
            /\ chars' = chars
      ]_vars

\* A split has just been made at a break position that is not the first
\* candidate of its sub-scan: index 1 of that sub-scan is a candidate too.
C13_Witness ==
    /\ pc = "check"
    /\ applied_line_break
    /\ break_point # << >>
    /\ break_point[1] >= 2
    /\ Annotated(base - break_point[1] + 1)
    /\ string[base - break_point[1] + 2] # NL

----------------------------------------------------------------------------
(* C14 *)

\* The 0-based index of the first null character of the text.
NulIndex == Len(BeforeNul(string))

\* The last n characters of s.
LastN(s, n) == SubSeq(s, Len(s) - n + 1, Len(s))

\* In a call on a text with a null character: the scan never passes the
\* null, no error is raised at or after it, no newline is inserted at or
\* after it, and an Ok result ends with the null and what follows it.
C14_NulUntouched ==
    (HasNul(string) /\ pc # "collect") =>
        /\ pc = "for" => base + cursor <= NulIndex
        /\ errAt # -1 => errAt < NulIndex
        /\ \A k \in inserted : InputIndex(k) < NulIndex
        /\ ReturnedOk =>
              /\ Len(output) >= Len(string) - NulIndex
              /\ LastN(output, Len(string) - NulIndex)
                   = LastN(string, Len(string) - NulIndex)

\* C14: a null character ends processing without error: once a sub-scan
\* reaches a null character no further split happens, the null and every
\* character after it are never measured, no newline is inserted at or after
\* the null, and the whole remaining working sequence is appended verbatim.
C14_NulEndsProcessing ==
    /\ [](C14_NulUntouched)
    /\ [][/\ (InFor /\ Cur.c = NUL) =>
              /\ pc' = "check"
              /\ ~applied_line_break'
              /\ UNCHANGED <<chars, output, result, inserted, splits>>
          /\ (pc = "check" /\ ~applied_line_break) =>
              /\ result' = Ok
              /\ output' = output \o CharsOf(chars)
              /\ UNCHANGED <<inserted, splits>>
         ]_vars

\* A call returned Ok on a text whose null character is followed by a
\* character the font has no width for, after at least one measured one.
C14_Witness ==
    /\ ReturnedOk
    /\ HasNul(string)
    /\ NulIndex >= 1
    /\ string[1] = 97
    /\ \E k \in (NulIndex + 2)..Len(string) :
          string[k] # NL /\ string[k] \notin DOMAIN font

\* A call split a line and then returned Ok at a null character.
C14_WitnessSplit == ReturnedOk /\ HasNul(string) /\ splits >= 1

----------------------------------------------------------------------------
(* C15 *)

\* The recorded break position is never a '\n', and a '\n' is never the
\* character MissingCharacterWidth names.
C15_NewlineNeverRecorded ==
    /\ (pc = "for" /\ break_point # << >>) => chars[break_point[1] + 1].c # NL
    /\ result # MissingCharacterWidth(NL)

\* C15: scanning a literal '\n' sets current_width to 0 and changes nothing
\* else: the recorded break position, the output and the working sequence
\* are unchanged, the newline is not looked up in the font and its own
\* annotation is never recorded.
C15_NewlineResetsWidthOnly ==
    /\ [](C15_NewlineNeverRecorded)
    /\ [][(InFor /\ Cur.c = NL) =>
              /\ current_width' = 0
              /\ cursor' = cursor + 1
              /\ pc' = "for"
              /\ UNCHANGED <<break_point, output, chars, result,
                             applied_line_break, inserted, base, splits>>
         ]_vars

\* A split has just used a break position recorded before a literal newline
\* that precedes the overflowing character.
C15_Witness ==
    /\ pc = "check"
    /\ applied_line_break
    /\ stale
    /\ splits = 1

----------------------------------------------------------------------------
(* C16 *)

\* The break position is never index 0, and in an Ok result an inserted
\* newline is neither the first character of the output nor preceded by a
\* newline, inserted or literal.
C16_NoEmptyLineInOk ==
    /\ break_point # <<0>>
    /\ ReturnedOk => \A k \in inserted : k >= 2 /\ output[k - 1] # NL

\* C16: the wrapper never creates an empty line: the recorded break position
\* is never index 0 of a sub-scan, every split emits at least one character
\* before its newline, and in every Ok result no inserted newline is at the
\* very start of the output or immediately after another newline.
C16_NoEmptyLine ==
    /\ [](C16_NoEmptyLineInOk)
    /\ [][IsSplit =>
              /\ break_point[1] >= 1
              /\ Len(output') >= Len(output) + 2
              /\ output'[Len(output')] = NL
         ]_vars

\* A call returned Ok with an inserted newline on a text that has a literal
\* newline of its own.
C16_Witness ==
    /\ ReturnedOk
    /\ inserted # {}
    /\ \E k \in 1..Len(string) : string[k] = NL

----------------------------------------------------------------------------
(* C17 *)

\* The number of items the iterator it over text s can still yield.
ItemsLeft(s, it) ==
    Cardinality({j \in it.pos..(Len(s) + 1) :
                    IteratorHasNext(s, [it EXCEPT !.pos = j])})

\* The items taken so far are those of the first codepoints, each tagged with
\* its byte offset, strictly increasing; while apply_newlines collects, the
\* iterator always has an item for the next codepoint; and when every
\* codepoint is paired exactly one item is left, the end-of-text one, whose
\* offset is the byte length.
C17_ItemsAndOffsets ==
    /\ Len(emitted) <= Len(string)
    /\ \A k \in 1..Len(emitted) :
          emitted[k].i = ByteLen(SubSeq(string, 1, k - 1))
    /\ \A k \in 1..(Len(emitted) - 1) : emitted[k].i < emitted[k + 1].i
    /\ pc = "collect" =>
          /\ breakers.pos = Len(emitted)
          /\ Len(chars) = Len(emitted)
          /\ \A k \in 1..Len(chars) :
                chars[k] = [c |-> string[k], op |-> emitted[k].op]
          /\ IteratorHasNext(string, breakers)
          /\ ItemsLeft(string, breakers) = Len(string) + 1 - Len(emitted)
          /\ Len(chars) = Len(string) =>
                /\ ItemsLeft(string, breakers) = 1
                /\ ClassAt(string, breakers.pos + 1)
                     = [i |-> ByteLen(string), cls |-> eot]
    /\ pc # "collect" => Len(emitted) = Len(string)

\* C17: for a text of n codepoints the scanner yields exactly n + 1 items:
\* one per codepoint tagged with its byte offset, offsets strictly
\* increasing, then one end-of-text item whose offset is the byte length.
\* apply_newlines consumes exactly the first n, so the expect is never hit
\* and the end-of-text verdict never influences the result.
C17_ScannerItems ==
    /\ [](C17_ItemsAndOffsets)
    /\ [][pc # "collect" => UNCHANGED <<emitted, breakers>>]_vars

\* A text that starts with a three-byte codepoint has been paired with its
\* annotations, three items or more.
C17_Witness ==
    /\ pc = "loop"
    /\ subscans = 0
    /\ Len(emitted) >= 3
    /\ string[1] = 8205
    /\ emitted[2].i = 3

----------------------------------------------------------------------------
(* C18 *)

\* C18: the result depends only on whether each annotation is present, not
\* on its kind: two calls with the same text, max_width and font whose
\* annotations agree on presence return the same result.  A Mandatory
\* annotation never forces a newline: a text that fits is returned unchanged.
C18_KindIrrelevant ==
    /\ (Done /\ prior # << >>) =>
          /\ Presence(emitted) = Presence(prior[1].ops)
          /\ result = prior[1].result
          /\ result = Ok => output = prior[1].output
    /\ (Done /\ Covers(font, string) /\ LinesWithin(font, string, max_width)
          /\ \E k \in 1..Len(emitted) : emitted[k].op = "Mandatory") =>
          /\ output = string
          /\ inserted = {}

\* The second call returned Ok with a newline at an annotation whose kind is
\* not the one the first call saw there.
C18_Witness ==
    /\ ReturnedOk
    /\ prior # << >>
    /\ \E k \in inserted :
          /\ Annotated(InputIndex(k))
          /\ emitted[InputIndex(k) + 1].op # prior[1].ops[InputIndex(k) + 1].op

\* The second call returned Ok without a newline on a text that fits, with a
\* Mandatory annotation where the first call saw an Allowed one.
C18_WitnessMandatory ==
    /\ ReturnedOk
    /\ prior # << >>
    /\ inserted = {}
    /\ ~HasNul(string)
    /\ \E k \in 2..Len(emitted) :
          /\ string[k] = 97
          /\ emitted[k].op = "Mandatory"
          /\ prior[1].ops[k].op = "Allowed"

----------------------------------------------------------------------------
(* C19 *)

\* C19: a stale break position never shapes a successful result: when a split
\* has used a break position p while a literal '\n' lies between p and the
\* overflowing character, the call ends with NoLegalLinebreakOpportunity; so
\* in every Ok result each inserted newline lies inside the line that
\* overflowed.
C19_StaleSplitFails ==
    /\ (Done /\ stale) => result = NoLegalLinebreakOpportunity
    /\ ReturnedOk => ~stale
    /\ stale => splits >= 1

\* A call that split at a stale break position has returned the error.
C19_Witness ==
    /\ Done
    /\ stale
    /\ result = NoLegalLinebreakOpportunity
    /\ Len(output) >= 2

=============================================================================
